---- MODULE Spec2Model ----
(***************************************************************************)
(* Study-session timer and badge engine of the skill tracker               *)
(* (src/auth_db.py, src/skills.py, src/app.py).                            *)
(*                                                                         *)
(* The store is the SQLite database: the users table, study_sessions and   *)
(* user_badges.  Every auth_db function opens its own connection; a        *)
(* Streamlit session (a browser tab) runs one script at a time in its own  *)
(* thread and keeps its own st.session_state.  A caller of the model is    *)
(* one such thread.                                                        *)
(*                                                                         *)
(* Spec, SpecOps, SpecUI, SpecClock and SpecTier run the calls one at a    *)
(* time: each action is a whole function.  SpecOps adds the two queries,   *)
(* SpecTier takes one session through every length in minutes.             *)
(* SpecConc runs start_study_session and                                   *)
(* end_study_session statement by statement, the statements of the two     *)
(* callers interleaved; SpecLogout runs logout_user beside another         *)
(* caller's end_study_session; SpecReg runs register_user statement by     *)
(* statement.  Python's sqlite3 opens a transaction before the   *)
(* first INSERT/UPDATE of a connection and keeps its writes private until  *)
(* commit; a SELECT outside a transaction reads the committed store; one   *)
(* connection at a time holds the write lock.                              *)
(***************************************************************************)
EXTENDS Integers, Sequences, FiniteSets, TLC

VARIABLES
    users,      \* users table: sequence of usernames, id = position (AUTOINCREMENT)
    badges,     \* user_badges: user_id -> NULL or <<record>>
    sessions,   \* study_sessions: sequence of rows, id = position (AUTOINCREMENT)
    writer,     \* the caller whose connection holds SQLite's write lock
    pc,         \* per caller: the statement it executes next
    loc,        \* per caller: the local variables of the running function
    ret,        \* per caller: the value its last call returned
    ui          \* per caller: st.session_state (username, active_study_sessions)

vars == <<users, badges, sessions, writer, pc, loc, ret, ui>>

store == <<users, badges, sessions>>

----------------------------------------------------------------------------
(* Bounds and input sets *)

\* Cap on the number of study_sessions rows (the table itself is unbounded).
MaxSessions == 2

\* Largest clock reading, in seconds, of the fine-clock specification.
MaxSecond == 125

Procs == {"t1", "t2"}
NoProc == "none"

Usernames == {"ann", "bob"}
NoUser == "nobody"

\* user_id arguments: ids the users table hands out, in any registration state.
UserIds == {1, 2}

Skills == {"py", "sql"}
NoSkill == "noskill"

\* A wall-clock reading is a number of half seconds (datetime.now() is finer
\* than the stored text).  The wall clock is not monotonic: it is set back at
\* the end of daylight saving time and by clock corrections.
\* 0.5 s and 3600 s:
Readings == {1, 7200}
\* Every half second from 0 s to MaxSecond s.
FineReadings == 0 .. (2 * MaxSecond + 1)

\* Longest session, in minutes, of the tier specification (the last threshold
\* of the badge table is 36000).
MaxMinutes == 36100
\* The clock at 01:00:00, and at every whole minute from 00:00:00 to
\* MaxMinutes minutes after 01:00:00.
HourReading == 7200
MinuteReadings == { 120 * m : m \in 0 .. (MaxMinutes + 60) }

----------------------------------------------------------------------------
(* SQL values *)

NULL == << >>
Some(v) == <<v>>
Val(x) == x[1]

\* strftime("%Y-%m-%d %H:%M:%S"): the reading cut to whole seconds; strptime of
\* that text gives the same whole second back.
strftime(reading) == reading \div 2

\* Python's int() of a quotient: truncation toward zero.
IntOfQuotient(a, b) == IF a >= 0 THEN a \div b ELSE -((-a) \div b)

----------------------------------------------------------------------------
(* Badge table *)

\* Mutant of BADGE_LEVELS: the title "Entry" entered twice.
BADGE_LEVELS_DuplicateTitle ==
    << [title |-> "Member",        minutes |-> 0],
       [title |-> "Entry",         minutes |-> 60],
       [title |-> "Entry",         minutes |-> 300],
       [title |-> "Intermediate",  minutes |-> 900],
       [title |-> "Proficient",    minutes |-> 1800],
       [title |-> "Advanced",      minutes |-> 3600],
       [title |-> "Expert",        minutes |-> 7200],
       [title |-> "A+ Student",    minutes |-> 12000],
       [title |-> "Master",        minutes |-> 18000],
       [title |-> "Grand Master",  minutes |-> 24000],
       [title |-> "Study Machine", minutes |-> 30000],
       [title |-> "Study Master",  minutes |-> 36000] >>

BADGE_LEVELS ==
    << [title |-> "Member",        minutes |-> 0],
       [title |-> "Entry",         minutes |-> 60],
       [title |-> "Beginner",      minutes |-> 300],
       [title |-> "Intermediate",  minutes |-> 900],
       [title |-> "Proficient",    minutes |-> 1800],
       [title |-> "Advanced",      minutes |-> 3600],
       [title |-> "Expert",        minutes |-> 7200],
       [title |-> "A+ Student",    minutes |-> 12000],
       [title |-> "Master",        minutes |-> 18000],
       [title |-> "Grand Master",  minutes |-> 24000],
       [title |-> "Study Machine", minutes |-> 30000],
       [title |-> "Study Master",  minutes |-> 36000] >>

RECURSIVE ReversedScan(_, _)
\* for level in reversed(BADGE_LEVELS): first level with total >= minutes
ReversedScan(i, total_minutes) ==
    IF i = 0 THEN BADGE_LEVELS[1].title
    ELSE IF total_minutes >= BADGE_LEVELS[i].minutes THEN BADGE_LEVELS[i].title
    ELSE ReversedScan(i - 1, total_minutes)

\* Mutant of get_badge_for_minutes: thresholds taken as exclusive bounds
\* (total_minutes > level["minutes"]).
get_badge_for_minutes_Exclusive(total_minutes) ==
    ReversedScan(Len(BADGE_LEVELS), total_minutes - 1)

get_badge_for_minutes(total_minutes) ==
    ReversedScan(Len(BADGE_LEVELS), total_minutes)

----------------------------------------------------------------------------
(* Queries *)

\* SELECT id FROM users WHERE username = ?
get_user_id(username) ==
    IF \E i \in 1..Len(users) : users[i] = username
    THEN CHOOSE i \in 1..Len(users) : users[i] = username
    ELSE 0

\* SELECT id FROM study_sessions WHERE user_id = ? AND skill_id = ? AND end_time IS NULL
OpenSessions(user_id, skill_id) ==
    { i \in 1..Len(sessions) :
        /\ sessions[i].user_id = user_id
        /\ sessions[i].skill_id = skill_id
        /\ sessions[i].end_time = NULL }

\* SELECT ... FROM study_sessions WHERE id = ? AND end_time IS NULL
IsOpenId(session_id) ==
    /\ session_id \in 1..Len(sessions)
    /\ sessions[session_id].end_time = NULL

----------------------------------------------------------------------------
(* Callers *)

\* The local variables of end_study_session / start_study_session, the
\* username argument of register_user, and the skills the loop of
\* logout_user has been through.
IdleLoc ==
    [ user_id |-> 0, skill_id |-> NoSkill, current_time |-> 0,
      session_id |-> 0, start_time |-> 0, duration_minutes |-> 0,
      result |-> NULL, total_minutes |-> 0, new_badge |-> "",
      username |-> NoUser, visited |-> {} ]

NoRet == [ok |-> FALSE, kind |-> "none", n |-> 0]

FreshSessionState ==
    [username |-> NoUser, active_study_sessions |-> [k \in Skills |-> 0]]

Idle(p) == pc[p] = "idle"

Init ==
    /\ users = << >>
    /\ badges = [u \in UserIds |-> NULL]
    /\ sessions = << >>
    /\ writer = NoProc
    /\ pc = [p \in Procs |-> "idle"]
    /\ loc = [p \in Procs |-> IdleLoc]
    /\ ret = [p \in Procs |-> NoRet]
    /\ ui = [p \in Procs |-> FreshSessionState]

\* The value a call returns to p: (ok, value).
Returns(p, ok, kind, n) ==
    ret' = [ret EXCEPT ![p] = [ok |-> ok, kind |-> kind, n |-> n]]

----------------------------------------------------------------------------
(* Registration, login, loss of the session state *)

\* Mutant of NewBadgeRecord: the record is created one tier up.
NewBadgeRecord_Entry(current_time) ==
    [ total_study_minutes |-> 0, current_badge |-> "Entry",
      badge_updated_at |-> current_time ]

NewBadgeRecord(current_time) ==
    [ total_study_minutes |-> 0, current_badge |-> "Member",
      badge_updated_at |-> current_time ]

\* register_user: the users row and the user_badges row are inserted in one
\* transaction, which needs the write lock.  A taken username returns
\* (False, ...) and changes nothing.
register_user(p, username, reading) ==
    /\ Idle(p)
    /\ writer = NoProc
    /\ get_user_id(username) = 0
    /\ LET user_id == Len(users) + 1
           current_time == strftime(reading)
       IN /\ users' = Append(users, username)
          /\ badges' = [badges EXCEPT ![user_id] = Some(NewBadgeRecord(current_time))]
    /\ UNCHANGED <<sessions, writer, pc, loc, ret, ui>>

\* auth_db.login_user: a registered user signs in on a fresh session state.
login_user(p, username) ==
    /\ Idle(p)
    /\ ui[p].username = NoUser
    /\ get_user_id(username) # 0
    /\ ui' = [ui EXCEPT ![p].username = username]
    /\ UNCHANGED <<store, writer, pc, loc, ret>>

\* A page reload or a restart of the server gives the browser a new
\* st.session_state; initialize_auth fills it with the defaults.
initialize_auth(p) ==
    /\ Idle(p)
    /\ ui[p] # FreshSessionState
    /\ ui' = [ui EXCEPT ![p] = FreshSessionState]
    /\ UNCHANGED <<store, writer, pc, loc, ret>>

----------------------------------------------------------------------------
(* start_study_session *)

\* Mutant of Ongoing: the NULL test inverted (end_time IS NOT NULL).
Ongoing_ClosedOnly(user_id, skill_id) ==
    \E i \in 1..Len(sessions) :
        /\ sessions[i].user_id = user_id
        /\ sessions[i].skill_id = skill_id
        /\ sessions[i].end_time # NULL

\* Mutant of Ongoing: the skill_id condition left out of the WHERE clause.
Ongoing_AnySkill(user_id, skill_id) ==
    \E i \in 1..Len(sessions) :
        /\ sessions[i].user_id = user_id
        /\ sessions[i].end_time = NULL

\* The ongoing-session check: SELECT ... AND end_time IS NULL; fetchone().
Ongoing(user_id, skill_id) == OpenSessions(user_id, skill_id) # {}

\* Mutant of NewSessionRow: the row is created already ended.
NewSessionRow_Ended(user_id, skill_id, current_time) ==
    [ user_id |-> user_id, skill_id |-> skill_id, start_time |-> current_time,
      end_time |-> Some(current_time), duration_minutes |-> Some(0) ]

\* The row INSERT INTO study_sessions (user_id, skill_id, start_time) creates.
NewSessionRow(user_id, skill_id, current_time) ==
    [ user_id |-> user_id, skill_id |-> skill_id, start_time |-> current_time,
      end_time |-> NULL, duration_minutes |-> NULL ]

\* What start_study_session returns, and the study_sessions table it leaves,
\* when it runs with no other call in progress.
StartResult(user_id, skill_id) ==
    IF Ongoing(user_id, skill_id)
    THEN [ok |-> FALSE, kind |-> "already_active", n |-> 0]
    ELSE [ok |-> TRUE, kind |-> "session_id", n |-> Len(sessions) + 1]

\* Mutant of SessionsAfterStart: the INSERT runs before the ongoing check
\* returns.
SessionsAfterStart_Always(user_id, skill_id, reading) ==
    Append(sessions, NewSessionRow(user_id, skill_id, strftime(reading)))

\* Mutant of SessionsAfterStart: the new session takes the place of the
\* pair's last closed row when there is one.
SessionsAfterStart_Reuse(user_id, skill_id, reading) ==
    LET closed == { i \in 1..Len(sessions) :
                      /\ sessions[i].user_id = user_id
                      /\ sessions[i].skill_id = skill_id
                      /\ sessions[i].end_time # NULL }
    IN IF Ongoing(user_id, skill_id) THEN sessions
       ELSE IF closed = {}
       THEN Append(sessions, NewSessionRow(user_id, skill_id, strftime(reading)))
       ELSE [sessions EXCEPT ![CHOOSE i \in closed : \A j \in closed : j <= i] =
                NewSessionRow(user_id, skill_id, strftime(reading))]

SessionsAfterStart(user_id, skill_id, reading) ==
    IF Ongoing(user_id, skill_id)
    THEN sessions
    ELSE Append(sessions, NewSessionRow(user_id, skill_id, strftime(reading)))

\* The whole function, run with no other call in progress.
start_study_session(p, user_id, skill_id, reading) ==
    /\ Idle(p)
    /\ Ongoing(user_id, skill_id) \/ Len(sessions) < MaxSessions
    /\ sessions' = SessionsAfterStart(user_id, skill_id, reading)
    /\ ret' = [ret EXCEPT ![p] = StartResult(user_id, skill_id)]
    /\ UNCHANGED <<users, badges, writer, pc, loc, ui>>

\* skills.start_study_timer, called from the page of a signed-in session.
start_study_timer(p, skill_id, reading) ==
    /\ Idle(p)
    /\ ui[p].username # NoUser
    /\ LET user_id == get_user_id(ui[p].username)
           result == StartResult(user_id, skill_id)
       IN IF user_id = 0
          THEN /\ Returns(p, FALSE, "user_not_found", 0)
               /\ UNCHANGED <<sessions, ui>>
          ELSE /\ Ongoing(user_id, skill_id) \/ Len(sessions) < MaxSessions
               /\ sessions' = SessionsAfterStart(user_id, skill_id, reading)
               /\ IF result.ok
                  THEN /\ ui' = [ui EXCEPT
                                   ![p].active_study_sessions[skill_id] = result.n]
                       /\ Returns(p, TRUE, "timer_started", 0)
                  ELSE /\ ui' = ui
                       /\ ret' = [ret EXCEPT ![p] = result]
    /\ UNCHANGED <<users, badges, writer, pc, loc>>

----------------------------------------------------------------------------
(* end_study_session *)

\* Mutant of DurationMinutes: round() in place of int().
DurationMinutes_Rounded(start_time, current_time) ==
    (current_time - start_time + 30) \div 60

\* int((end_dt - start_dt).total_seconds() / 60)
DurationMinutes(start_time, current_time) ==
    IntOfQuotient(current_time - start_time, 60)

\* user_id, skill_id, start_time = session; duration_minutes = ...
SessionRead(l) ==
    LET session == sessions[l.session_id]
    IN [l EXCEPT !.user_id = session.user_id,
                 !.skill_id = session.skill_id,
                 !.start_time = session.start_time,
                 !.duration_minutes =
                     DurationMinutes(session.start_time, l.current_time)]

\* Mutant of BadgeRead: the duration stored as the total instead of added to it.
BadgeRead_Overwrite(l) ==
    LET result == badges[l.user_id]
        total_minutes == IF result = NULL THEN 0 ELSE l.duration_minutes
    IN [l EXCEPT !.result = result,
                 !.total_minutes = total_minutes,
                 !.new_badge = IF result = NULL THEN ""
                               ELSE get_badge_for_minutes(total_minutes)]

\* SELECT total_study_minutes FROM user_badges WHERE user_id = ?;
\* if result: total_minutes = result[0] + duration_minutes; new_badge = ...
BadgeRead(l) ==
    LET result == badges[l.user_id]
        total_minutes ==
            IF result = NULL THEN 0
            ELSE Val(result).total_study_minutes + l.duration_minutes
    IN [l EXCEPT !.result = result,
                 !.total_minutes = total_minutes,
                 !.new_badge = IF result = NULL THEN ""
                               ELSE get_badge_for_minutes(total_minutes)]

\* The study_sessions row after UPDATE ... SET end_time, duration_minutes.
ClosedRow(row, current_time, duration_minutes) ==
    [row EXCEPT !.end_time = Some(current_time),
                !.duration_minutes = Some(duration_minutes)]

\* Mutant of SessionsAfterEnd: the UPDATE closes every open session of the
\* user (WHERE user_id = ? in place of WHERE id = ?).
SessionsAfterEnd_AllOfUser(l) ==
    [i \in 1..Len(sessions) |->
        IF sessions[i].user_id = l.user_id /\ sessions[i].end_time = NULL
        THEN ClosedRow(sessions[i], l.current_time, l.duration_minutes)
        ELSE sessions[i]]

SessionsAfterEnd(l) ==
    [sessions EXCEPT ![l.session_id] =
        ClosedRow(@, l.current_time, l.duration_minutes)]

\* Mutant of BadgesAfterEnd: the UPDATE without its WHERE user_id = ?.
BadgesAfterEnd_AllUsers(l) ==
    IF l.result = NULL THEN badges
    ELSE [u \in UserIds |->
            IF badges[u] = NULL THEN NULL
            ELSE Some([ total_study_minutes |-> l.total_minutes,
                        current_badge |-> l.new_badge,
                        badge_updated_at |-> l.current_time ])]

\* Mutant of BadgesAfterEnd: current_badge left as it was.
BadgesAfterEnd_StaleBadge(l) ==
    IF l.result = NULL THEN badges
    ELSE [badges EXCEPT ![l.user_id] =
            Some([ total_study_minutes |-> l.total_minutes,
                   current_badge |-> Val(l.result).current_badge,
                   badge_updated_at |-> l.current_time ])]

\* Mutant of BadgesAfterEnd: no UPDATE of user_badges for a duration of 0.
BadgesAfterEnd_SkipZero(l) ==
    IF l.result = NULL \/ l.duration_minutes = 0 THEN badges
    ELSE [badges EXCEPT ![l.user_id] =
            Some([ total_study_minutes |-> l.total_minutes,
                   current_badge |-> l.new_badge,
                   badge_updated_at |-> l.current_time ])]

\* user_badges after UPDATE ... SET total_study_minutes, current_badge,
\* badge_updated_at (no UPDATE when the SELECT found no row).
BadgesAfterEnd(l) ==
    IF l.result = NULL THEN badges
    ELSE [badges EXCEPT ![l.user_id] =
            Some([ total_study_minutes |-> l.total_minutes,
                   current_badge |-> l.new_badge,
                   badge_updated_at |-> l.current_time ])]

\* The locals of a call end_study_session(session_id) at clock reading `reading`.
EndLocals(session_id, reading) ==
    [IdleLoc EXCEPT !.session_id = session_id,
                    !.current_time = strftime(reading)]

\* The locals of end_study_session(session_id) at its commit, when it runs
\* with no other call in progress and finds the session open.
EndCommitLocals(session_id, reading) ==
    BadgeRead(SessionRead(EndLocals(session_id, reading)))

EndResult(session_id, reading) ==
    IF ~IsOpenId(session_id)
    THEN [ok |-> FALSE, kind |-> "no_active", n |-> 0]
    ELSE [ok |-> TRUE, kind |-> "duration",
          n |-> EndCommitLocals(session_id, reading).duration_minutes]

SessionsAfterEndCall(session_id, reading) ==
    IF ~IsOpenId(session_id) THEN sessions
    ELSE SessionsAfterEnd(EndCommitLocals(session_id, reading))

BadgesAfterEndCall(session_id, reading) ==
    IF ~IsOpenId(session_id) THEN badges
    ELSE BadgesAfterEnd(EndCommitLocals(session_id, reading))

\* The whole function, run with no other call in progress.
end_study_session(p, session_id, reading) ==
    /\ Idle(p)
    /\ sessions' = SessionsAfterEndCall(session_id, reading)
    /\ badges' = BadgesAfterEndCall(session_id, reading)
    /\ ret' = [ret EXCEPT ![p] = EndResult(session_id, reading)]
    /\ UNCHANGED <<users, writer, pc, loc, ui>>

\* The session id end_study_timer finds for the skill: 0 when skill_id is not
\* in st.session_state.active_study_sessions.
TimerSessionId(p, skill_id) == ui[p].active_study_sessions[skill_id]

\* skills.end_study_timer, called from the page of a signed-in session.
end_study_timer(p, skill_id, reading) ==
    /\ Idle(p)
    /\ ui[p].username # NoUser
    /\ LET session_id == TimerSessionId(p, skill_id)
           result == EndResult(session_id, reading)
       IN IF session_id = 0
          THEN /\ Returns(p, FALSE, "no_timer", 0)
               /\ UNCHANGED <<sessions, badges, ui>>
          ELSE /\ sessions' = SessionsAfterEndCall(session_id, reading)
               /\ badges' = BadgesAfterEndCall(session_id, reading)
               /\ IF result.ok
                  THEN /\ ui' = [ui EXCEPT
                                   ![p].active_study_sessions[skill_id] = 0]
                       /\ Returns(p, TRUE, "timer_ended", result.n)
                  ELSE /\ ui' = ui
                       /\ ret' = [ret EXCEPT ![p] = result]
    /\ UNCHANGED <<users, writer, pc, loc>>

----------------------------------------------------------------------------
(* logout_user *)

\* The skills in st.session_state.active_study_sessions.
ActiveSkills(p) == { k \in Skills : ui[p].active_study_sessions[k] # 0 }

\* logout_user up to the loop: authenticated, username and user_id are reset.
LogoutBegin(p) ==
    /\ Idle(p)
    /\ ui[p].username # NoUser
    /\ ui' = [ui EXCEPT ![p].username = NoUser]
    /\ pc' = [pc EXCEPT ![p] = "logout"]
    /\ UNCHANGED <<store, writer, loc, ret>>

\* One pass of the loop: auth_db.end_study_session(session_id), its return
\* value dropped.  The call runs whole when no connection holds the write
\* lock; when another connection holds it past the busy timeout the UPDATE
\* raises "database is locked", the call rolls back and returns (False, ...).
LogoutEnd(p, skill_id, reading) ==
    /\ pc[p] = "logout"
    /\ skill_id \in ActiveSkills(p) \ loc[p].visited
    /\ IF writer = NoProc
       THEN /\ sessions' = SessionsAfterEndCall(TimerSessionId(p, skill_id), reading)
            /\ badges' = BadgesAfterEndCall(TimerSessionId(p, skill_id), reading)
       ELSE UNCHANGED <<sessions, badges>>
    /\ loc' = [loc EXCEPT ![p].visited = @ \cup {skill_id}]
    /\ UNCHANGED <<users, writer, pc, ret, ui>>

\* After the loop: st.session_state.active_study_sessions = {}.
LogoutDone(p) ==
    /\ pc[p] = "logout"
    /\ ActiveSkills(p) \subseteq loc[p].visited
    /\ ui' = [ui EXCEPT ![p].active_study_sessions = [k \in Skills |-> 0]]
    /\ pc' = [pc EXCEPT ![p] = "idle"]
    /\ loc' = [loc EXCEPT ![p] = IdleLoc]
    /\ UNCHANGED <<store, writer, ret>>

----------------------------------------------------------------------------
(* Status and active-session queries *)

Max(a, b) == IF a >= b THEN a ELSE b
Min(a, b) == IF a <= b THEN a ELSE b

\* next((i for i, level in enumerate(BADGE_LEVELS) if level["title"] == title), 0):
\* the first position holding the title, the first position when none does.
\* Positions count from 1 here.
LevelIndex(title) ==
    IF \E i \in 1..Len(BADGE_LEVELS) : BADGE_LEVELS[i].title = title
    THEN CHOOSE i \in 1..Len(BADGE_LEVELS) :
            /\ BADGE_LEVELS[i].title = title
            /\ \A j \in 1..(i - 1) : BADGE_LEVELS[j].title # title
    ELSE 1

\* The dict get_user_study_stats returns when user_badges has no row.
NoRecordStats ==
    [ total_minutes |-> 0, current_badge |-> "Member", next_badge |-> "Entry",
      minutes_to_next_badge |-> 60 ]

\* Mutant of StudyStats: the next tier read at current_level_index, the
\* current tier itself.
StudyStats_SameTier(user_id) ==
    LET result == badges[user_id]
    IN IF result = NULL THEN NoRecordStats
       ELSE LET i == LevelIndex(Val(result).current_badge)
            IN [ total_minutes |-> Val(result).total_study_minutes,
                 current_badge |-> Val(result).current_badge,
                 next_badge |-> BADGE_LEVELS[i].title,
                 minutes_to_next_badge |->
                     Max(0, BADGE_LEVELS[i].minutes
                              - Val(result).total_study_minutes) ]

\* The dict auth_db.get_user_study_stats(user_id) returns (total_hours, a
\* display value derived from total_minutes, is left out).
StudyStats(user_id) ==
    LET result == badges[user_id]
    IN IF result = NULL THEN NoRecordStats
       ELSE LET total_minutes == Val(result).total_study_minutes
                current_badge == Val(result).current_badge
                current_level_index == LevelIndex(current_badge)
            IN IF current_level_index < Len(BADGE_LEVELS)
               THEN [ total_minutes |-> total_minutes,
                      current_badge |-> current_badge,
                      next_badge |-> BADGE_LEVELS[current_level_index + 1].title,
                      minutes_to_next_badge |->
                          Max(0, BADGE_LEVELS[current_level_index + 1].minutes
                                   - total_minutes) ]
               ELSE [ total_minutes |-> total_minutes,
                      current_badge |-> current_badge,
                      next_badge |-> "Highest Level Achieved!",
                      minutes_to_next_badge |-> 0 ]

\* The whole percents k for which the double nearest to k/100, multiplied by
\* 100, is a double just below k (0.29 * 100 = 28.999999999999996), among
\* 0..100.
FloatShort == {29, 57, 58}

\* int((progress_value / progress_range) * 100) in double arithmetic, for
\* |progress_value| <= progress_range <= 6000: the exact quotient cut toward
\* zero, one less in magnitude where the product falls just short of a whole
\* percent.
IntOfPercent(progress_value, progress_range) ==
    LET exact == IntOfQuotient(100 * progress_value, progress_range)
        magnitude == IF exact >= 0 THEN exact ELSE -exact
    IN IF exact * progress_range = 100 * progress_value /\ magnitude \in FloatShort
       THEN (IF exact > 0 THEN exact - 1 ELSE exact + 1)
       ELSE exact

\* Mutant of ProgressPercent: the guard on minutes_to_next_badge inverted.
ProgressPercent_Inverted(stats) ==
    IF stats.minutes_to_next_badge > 0 THEN 100 ELSE 0

\* progress_percent as skills.get_study_badge computes it from the stats.
ProgressPercent(stats) ==
    IF stats.minutes_to_next_badge > 0
    THEN LET current_badge_index == LevelIndex(stats.current_badge)
             current_threshold == BADGE_LEVELS[current_badge_index].minutes
             next_threshold ==
                 IF current_badge_index < Len(BADGE_LEVELS)
                 THEN BADGE_LEVELS[current_badge_index + 1].minutes
                 ELSE current_threshold
             progress_range == next_threshold - current_threshold
             progress_value == stats.total_minutes - current_threshold
         IN IF progress_range > 0
            THEN Min(100, IntOfPercent(progress_value, progress_range))
            ELSE 100
    ELSE 100

\* The dict skills.get_study_badge(username) returns.
StudyBadge(username) ==
    LET user_id == get_user_id(username)
    IN IF user_id = 0
       THEN [ current_badge |-> "Member", next_badge |-> "Entry",
              progress_percent |-> 0, minutes_to_next_badge |-> 60 ]
       ELSE LET stats == StudyStats(user_id)
            IN [ total_minutes |-> stats.total_minutes,
                 current_badge |-> stats.current_badge,
                 next_badge |-> stats.next_badge,
                 minutes_to_next_badge |-> stats.minutes_to_next_badge,
                 progress_percent |-> ProgressPercent(stats) ]

\* A query returns its value; it has no (ok, value) pair.
Answers(p, kind, value) ==
    ret' = [ret EXCEPT ![p] = [ok |-> TRUE, kind |-> kind, n |-> 0, value |-> value]]

\* auth_db.get_user_study_stats: one SELECT, no write.
get_user_study_stats(p, user_id) ==
    /\ Idle(p)
    /\ Answers(p, "stats", StudyStats(user_id))
    /\ UNCHANGED <<store, writer, pc, loc, ui>>

\* skills.get_study_badge, called by the pages of a signed-in user.
get_study_badge(p, username) ==
    /\ Idle(p)
    /\ Answers(p, "study_badge", StudyBadge(username))
    /\ UNCHANGED <<store, writer, pc, loc, ui>>

\* Mutant of ElapsedOf: the elapsed time counted in minutes.
ElapsedOf_Minutes(start_time, reading) ==
    IntOfQuotient(reading - 2 * start_time, 120)

\* int((current_dt - start_dt).total_seconds()): the clock reading is finer
\* than the stored start_time.
ElapsedOf(start_time, reading) == IntOfQuotient(reading - 2 * start_time, 2)

\* auth_db.get_active_study_session: fetchone() of the open sessions of
\* (user_id, skill_id), any one of them when there are several (the SELECT has
\* no ORDER BY); None when there is none.
get_active_study_session(p, user_id, skill_id, reading) ==
    /\ Idle(p)
    /\ IF OpenSessions(user_id, skill_id) = {}
       THEN Answers(p, "active", NULL)
       ELSE \E session_id \in OpenSessions(user_id, skill_id) :
               Answers(p, "active",
                       Some([ session_id |-> session_id,
                              start_time |-> sessions[session_id].start_time,
                              elapsed_seconds |->
                                  ElapsedOf(sessions[session_id].start_time, reading) ]))
    /\ UNCHANGED <<store, writer, pc, loc, ui>>

RECURSIVE SumDurations(_, _, _)
\* SUM(duration_minutes) over the rows 1..i of (user_id, skill_id) WHERE
\* duration_minutes IS NOT NULL
SumDurations(i, user_id, skill_id) ==
    IF i = 0 THEN 0
    ELSE SumDurations(i - 1, user_id, skill_id)
         + (IF /\ sessions[i].user_id = user_id
               /\ sessions[i].skill_id = skill_id
               /\ sessions[i].duration_minutes # NULL
            THEN Val(sessions[i].duration_minutes)
            ELSE 0)

\* auth_db.get_study_history_by_skill: total_minutes per skill_id, for the
\* skills of the user's rows with a duration (GROUP BY skill_id; the order of
\* the list is left out).
get_study_history_by_skill(user_id) ==
    [ skill_id \in { sessions[i].skill_id : i \in
                       { j \in 1..Len(sessions) :
                           /\ sessions[j].user_id = user_id
                           /\ sessions[j].duration_minutes # NULL } }
        |-> SumDurations(Len(sessions), user_id, skill_id) ]

\* skills.get_active_study_timer: None for an unknown username, else the
\* answer of get_active_study_session for the user's id.
get_active_study_timer(p, username, skill_id, reading) ==
    IF get_user_id(username) = 0
    THEN /\ Idle(p)
         /\ Answers(p, "active", NULL)
         /\ UNCHANGED <<store, writer, pc, loc, ui>>
    ELSE get_active_study_session(p, get_user_id(username), skill_id, reading)

----------------------------------------------------------------------------
(* start_study_session and end_study_session, statement by statement *)

StartPcs == {"start_select", "start_insert", "start_commit"}

InFlightStarts == Cardinality({q \in Procs : pc[q] \in StartPcs})

\* The function returns: the caller is idle again.
Done(p, ok, kind, n) ==
    /\ pc' = [pc EXCEPT ![p] = "idle"]
    /\ loc' = [loc EXCEPT ![p] = IdleLoc]
    /\ Returns(p, ok, kind, n)

\* Entry of start_study_session: connect, read the clock.
CallStart(p, user_id, skill_id, reading) ==
    /\ Idle(p)
    /\ Ongoing(user_id, skill_id) \/ Len(sessions) + InFlightStarts < MaxSessions
    /\ pc' = [pc EXCEPT ![p] = "start_select"]
    /\ loc' = [loc EXCEPT ![p] =
                 [IdleLoc EXCEPT !.user_id = user_id, !.skill_id = skill_id,
                                 !.current_time = strftime(reading)]]
    /\ UNCHANGED <<store, writer, ret, ui>>

\* SELECT id ... AND end_time IS NULL; if ongoing: return False, ...
StartSelect(p) ==
    /\ pc[p] = "start_select"
    /\ IF Ongoing(loc[p].user_id, loc[p].skill_id)
       THEN Done(p, FALSE, "already_active", 0)
       ELSE /\ pc' = [pc EXCEPT ![p] = "start_insert"]
            /\ UNCHANGED <<loc, ret>>
    /\ UNCHANGED <<store, writer, ui>>

\* INSERT: the connection takes the write lock; lastrowid is the next id.
StartInsert(p) ==
    /\ pc[p] = "start_insert"
    /\ writer = NoProc
    /\ writer' = p
    /\ loc' = [loc EXCEPT ![p].session_id = Len(sessions) + 1]
    /\ pc' = [pc EXCEPT ![p] = "start_commit"]
    /\ UNCHANGED <<store, ret, ui>>

\* conn.commit(); return True, session_id
StartCommit(p) ==
    /\ pc[p] = "start_commit"
    /\ sessions' = Append(sessions,
                     NewSessionRow(loc[p].user_id, loc[p].skill_id, loc[p].current_time))
    /\ writer' = NoProc
    /\ Done(p, TRUE, "session_id", loc[p].session_id)
    /\ UNCHANGED <<users, badges, ui>>

\* "database is locked": another connection holds the write lock past the
\* busy timeout.  except: rollback, return (False, "Error ...").
StartLocked(p) ==
    /\ pc[p] = "start_insert"
    /\ writer \notin {NoProc, p}
    /\ Done(p, FALSE, "error", 0)
    /\ UNCHANGED <<store, writer, ui>>

\* commit cannot get the exclusive lock while another connection reads:
\* the INSERT is rolled back.
StartCommitFails(p) ==
    /\ pc[p] = "start_commit"
    /\ \E q \in Procs \ {p} : ~Idle(q)
    /\ writer' = NoProc
    /\ Done(p, FALSE, "error", 0)
    /\ UNCHANGED <<store, ui>>

\* Entry of end_study_session: connect, read the clock.
CallEnd(p, session_id, reading) ==
    /\ Idle(p)
    /\ pc' = [pc EXCEPT ![p] = "end_select"]
    /\ loc' = [loc EXCEPT ![p] = EndLocals(session_id, reading)]
    /\ UNCHANGED <<store, writer, ret, ui>>

\* SELECT user_id, skill_id, start_time ... WHERE id = ? AND end_time IS NULL
EndSelect(p) ==
    /\ pc[p] = "end_select"
    /\ IF ~IsOpenId(loc[p].session_id)
       THEN Done(p, FALSE, "no_active", 0)
       ELSE /\ loc' = [loc EXCEPT ![p] = SessionRead(loc[p])]
            /\ pc' = [pc EXCEPT ![p] = "end_update"]
            /\ ret' = ret
    /\ UNCHANGED <<store, writer, ui>>

\* UPDATE study_sessions ... WHERE id = ?: the connection takes the write
\* lock, the write stays private until commit.
EndUpdateSession(p) ==
    /\ pc[p] = "end_update"
    /\ writer = NoProc
    /\ writer' = p
    /\ pc' = [pc EXCEPT ![p] = "end_badge"]
    /\ UNCHANGED <<store, loc, ret, ui>>

\* SELECT total_study_minutes ...; if result: UPDATE user_badges (private).
EndUpdateBadge(p) ==
    /\ pc[p] = "end_badge"
    /\ loc' = [loc EXCEPT ![p] = BadgeRead(loc[p])]
    /\ pc' = [pc EXCEPT ![p] = "end_commit"]
    /\ UNCHANGED <<store, writer, ret, ui>>

\* conn.commit(): both UPDATEs reach the store; return True, duration_minutes
EndCommit(p) ==
    /\ pc[p] = "end_commit"
    /\ sessions' = SessionsAfterEnd(loc[p])
    /\ badges' = BadgesAfterEnd(loc[p])
    /\ writer' = NoProc
    /\ Done(p, TRUE, "duration", loc[p].duration_minutes)
    /\ UNCHANGED <<users, ui>>

\* "database is locked" at the first UPDATE: rollback, return (False, "Error ...").
EndLocked(p) ==
    /\ pc[p] = "end_update"
    /\ writer \notin {NoProc, p}
    /\ Done(p, FALSE, "error", 0)
    /\ UNCHANGED <<store, writer, ui>>

\* commit cannot get the exclusive lock while another connection reads:
\* both UPDATEs are rolled back.
EndCommitFails(p) ==
    /\ pc[p] = "end_commit"
    /\ \E q \in Procs \ {p} : ~Idle(q)
    /\ writer' = NoProc
    /\ Done(p, FALSE, "error", 0)
    /\ UNCHANGED <<store, ui>>

\* Entry of register_user(username, ...).
CallRegister(p, username) ==
    /\ Idle(p)
    /\ pc' = [pc EXCEPT ![p] = "reg_exists"]
    /\ loc' = [loc EXCEPT ![p] = [IdleLoc EXCEPT !.username = username]]
    /\ UNCHANGED <<store, writer, ret, ui>>

\* if user_exists(username, email): return False, "... already exists."
\* (a SELECT on a connection of its own)
RegUserExists(p) ==
    /\ pc[p] = "reg_exists"
    /\ IF get_user_id(loc[p].username) # 0
       THEN Done(p, FALSE, "exists", 0)
       ELSE /\ pc' = [pc EXCEPT ![p] = "reg_insert_user"]
            /\ UNCHANGED <<loc, ret>>
    /\ UNCHANGED <<store, writer, ui>>

\* INSERT INTO users: the connection takes the write lock; user_id =
\* cursor.lastrowid.  A username committed since the check violates UNIQUE:
\* except: rollback, return (False, "Error during registration: ...").
RegInsertUser(p, reading) ==
    /\ pc[p] = "reg_insert_user"
    /\ writer = NoProc
    /\ Len(users) < Cardinality(UserIds)
    /\ IF get_user_id(loc[p].username) # 0
       THEN /\ Done(p, FALSE, "error", 0)
            /\ UNCHANGED writer
       ELSE /\ writer' = p
            /\ loc' = [loc EXCEPT ![p].user_id = Len(users) + 1,
                                  ![p].current_time = strftime(reading)]
            /\ pc' = [pc EXCEPT ![p] = "reg_insert_badge"]
            /\ ret' = ret
    /\ UNCHANGED <<store, ui>>

\* "database is locked" at the INSERT: rollback, return (False, "Error ...").
RegLocked(p) ==
    /\ pc[p] = "reg_insert_user"
    /\ writer \notin {NoProc, p}
    /\ Done(p, FALSE, "error", 0)
    /\ UNCHANGED <<store, writer, ui>>

\* INSERT INTO user_badges (user_id, 0, "Member", current_time), private
\* until commit.
RegInsertBadge(p) ==
    /\ pc[p] = "reg_insert_badge"
    /\ pc' = [pc EXCEPT ![p] = "reg_commit"]
    /\ UNCHANGED <<store, writer, loc, ret, ui>>

\* conn.commit(): both rows reach the store; return True, "Registration
\* successful."
RegCommit(p) ==
    /\ pc[p] = "reg_commit"
    /\ users' = Append(users, loc[p].username)
    /\ badges' = [badges EXCEPT
                    ![loc[p].user_id] = Some(NewBadgeRecord(loc[p].current_time))]
    /\ writer' = NoProc
    /\ Done(p, TRUE, "registered", loc[p].user_id)
    /\ UNCHANGED <<sessions, ui>>

\* commit cannot get the exclusive lock while another connection reads:
\* both INSERTs are rolled back.
RegCommitFails(p) ==
    /\ pc[p] = "reg_commit"
    /\ \E q \in Procs \ {p} : ~Idle(q)
    /\ writer' = NoProc
    /\ Done(p, FALSE, "error", 0)
    /\ UNCHANGED <<store, ui>>

----------------------------------------------------------------------------
(* Specifications *)

\* The calls of one caller on auth_db, one at a time.
Next ==
    \/ \E username \in Usernames :
           \* these calls take ids, not names: which name registers first
           \* makes no difference to them
           /\ username = "ann" \/ users # << >>
           /\ register_user("t1", username, 0)
    \/ \E user_id \in UserIds, skill_id \in Skills, reading \in Readings :
           start_study_session("t1", user_id, skill_id, reading)
    \/ \E session_id \in 1..MaxSessions, reading \in Readings :
           end_study_session("t1", session_id, reading)

Spec == Init /\ [][Next]_vars

\* Two callers on one user and one skill, their statements interleaved; the
\* clock reads 0 s at a start and 90 s or 150 s at an end.
ConcNext ==
    \E p \in Procs :
        \/ register_user(p, "ann", 0)
        \/ CallStart(p, 1, "py", 0)
        \/ StartSelect(p)
        \/ StartInsert(p)
        \/ StartCommit(p)
        \/ StartLocked(p)
        \/ StartCommitFails(p)
        \/ \E session_id \in 1..MaxSessions, reading \in {180, 300} :
               CallEnd(p, session_id, reading)
        \/ EndSelect(p)
        \/ EndUpdateSession(p)
        \/ EndUpdateBadge(p)
        \/ EndCommit(p)
        \/ EndLocked(p)
        \/ EndCommitFails(p)

SpecConc == Init /\ [][ConcNext]_vars

\* The calls of one caller on auth_db, the two queries among them, one at a
\* time, on one skill.
OpsNext ==
    \/ \E username \in Usernames :
           /\ username = "ann" \/ users # << >>
           /\ register_user("t1", username, 0)
    \/ \E user_id \in UserIds, reading \in Readings :
           start_study_session("t1", user_id, "py", reading)
    \/ \E session_id \in 1..MaxSessions, reading \in Readings :
           end_study_session("t1", session_id, reading)
    \/ \E user_id \in UserIds : get_user_study_stats("t1", user_id)
    \/ \E user_id \in UserIds, reading \in Readings :
           get_active_study_session("t1", user_id, "py", reading)
    \/ \E username \in Usernames, reading \in Readings :
           get_active_study_timer("t1", username, "py", reading)

SpecOps == Init /\ [][OpsNext]_vars

\* Two browser sessions of the registered users, using the timer page; calls
\* run one at a time.
UINext ==
    \E p \in Procs :
        \/ \E username \in Usernames : register_user(p, username, 0)
        \/ \E username \in Usernames : login_user(p, username)
        \/ initialize_auth(p)
        \/ \E skill_id \in Skills : start_study_timer(p, skill_id, 0)
        \/ \E skill_id \in Skills : end_study_timer(p, skill_id, 7200)

SpecUI == Init /\ [][UINext]_vars

\* One session of one user under a fine clock: started at 0 s, 61 s or
\* MaxSecond s, ended at any half second up to MaxSecond s.
ClockNext ==
    \/ register_user("t1", "ann", 0)
    \/ /\ sessions = << >>
       /\ \E reading \in {0, 122, 2 * MaxSecond} :
              start_study_session("t1", 1, "py", reading)
    \/ \E reading \in FineReadings : end_study_session("t1", 1, reading)

SpecClock == Init /\ [][ClockNext]_vars

\* One registered user and one session, started at 01:00:00 and ended at any
\* whole minute from one hour earlier to MaxMinutes minutes later; the user's
\* status is read at any time.
TierNext ==
    \/ register_user("t1", "ann", 0)
    \/ /\ sessions = << >>
       /\ users # << >>
       /\ start_study_session("t1", 1, "py", HourReading)
    \/ /\ IsOpenId(1)
       /\ \E reading \in MinuteReadings : end_study_session("t1", 1, reading)
    \/ get_user_study_stats("t1", 1)
    \/ \E username \in Usernames : get_study_badge("t1", username)

SpecTier == Init /\ [][TierNext]_vars

\* A browser session that signs in, starts timers and logs out, while
\* another caller starts a session of its own and ends it statement by
\* statement, holding the write lock from its UPDATE to its commit.
LogoutNext ==
    \/ register_user("t1", "ann", 0)
    \/ login_user("t1", "ann")
    \/ /\ writer = NoProc
       /\ \E skill_id \in Skills : start_study_timer("t1", skill_id, 0)
    \/ LogoutBegin("t1")
    \/ \E skill_id \in Skills : LogoutEnd("t1", skill_id, HourReading)
    \/ LogoutDone("t1")
    \/ start_study_session("t2", 2, "py", 0)
    \/ \E session_id \in 1..Len(sessions) :
           /\ sessions[session_id].user_id = 2
           /\ CallEnd("t2", session_id, HourReading)
    \/ EndSelect("t2")
    \/ EndUpdateSession("t2")
    \/ EndUpdateBadge("t2")
    \/ EndCommit("t2")

SpecLogout == Init /\ [][LogoutNext]_vars

\* Two callers registering, statement by statement, and starting and ending
\* sessions of registered and of unregistered user ids between the
\* transactions.
RegNext ==
    \E p \in Procs :
        \/ \E username \in Usernames : CallRegister(p, username)
        \/ RegUserExists(p)
        \/ RegInsertUser(p, 0)
        \/ RegLocked(p)
        \/ RegInsertBadge(p)
        \/ RegCommit(p)
        \/ RegCommitFails(p)
        \/ /\ writer = NoProc
           /\ \E user_id \in UserIds : start_study_session(p, user_id, "py", 0)
        \/ /\ writer = NoProc
           /\ \E session_id \in 1..MaxSessions :
                  end_study_session(p, session_id, HourReading)

SpecReg == Init /\ [][RegNext]_vars

----------------------------------------------------------------------------
(* Properties of the calls run one at a time (Spec) *)

IsOpen(row) == row.end_time = NULL
IsClosed(row) == row.end_time # NULL

OpenRowsOf(user_id, skill_id) ==
    { i \in 1..Len(sessions) :
        sessions[i].user_id = user_id /\ sessions[i].skill_id = skill_id
        /\ IsOpen(sessions[i]) }

\* C1: after any sequence of start_study_session and end_study_session calls
\* run one at a time, every (user_id, skill_id) pair has at most one session
\* row whose end_time is absent.
C1_AtMostOneOpenPerPair ==
    \A user_id \in UserIds, skill_id \in Skills :
        Cardinality(OpenRowsOf(user_id, skill_id)) <= 1

\* C1 witness: a pair with a closed and an open session, whose further start
\* has just been rejected.
C1_Witness ==
    /\ ret["t1"].kind = "already_active"
    /\ \E i, j \in 1..Len(sessions) :
          /\ sessions[i].user_id = sessions[j].user_id
          /\ sessions[i].skill_id = sessions[j].skill_id
          /\ IsClosed(sessions[i])
          /\ IsOpen(sessions[j])

\* C9: a start_study_session(user, skill) call is rejected as already active
\* exactly when an open session for (user, skill) exists when it is made, and
\* succeeds otherwise.
C9_StartRejectedIffOpen ==
    [][ \A p \in Procs, user_id \in UserIds, skill_id \in Skills,
           reading \in Readings :
          start_study_session(p, user_id, skill_id, reading) =>
            IF OpenRowsOf(user_id, skill_id) # {}
            THEN ~ret'[p].ok /\ ret'[p].kind = "already_active"
            ELSE ret'[p].ok /\ ret'[p].kind = "session_id" ]_vars

\* C9 witness: a start was rejected while the same user has an open session
\* for one skill and none for the other, and a closed session exists.
C9_Witness ==
    /\ ret["t1"].kind = "already_active"
    /\ \E user_id \in UserIds :
          /\ OpenRowsOf(user_id, "py") # {}
          /\ OpenRowsOf(user_id, "sql") = {}
    /\ \E i \in 1..Len(sessions) : IsClosed(sessions[i])

\* C10: a successful start adds exactly one session row (the given user and
\* skill, start_time the current time, end_time and duration_minutes absent),
\* returns that row's id, and leaves every other row and every BadgeRecord
\* unchanged.
C10_StartFrame ==
    [][ \A p \in Procs, user_id \in UserIds, skill_id \in Skills,
           reading \in Readings :
          (start_study_session(p, user_id, skill_id, reading) /\ ret'[p].ok) =>
            /\ Len(sessions') = Len(sessions) + 1
            /\ \A i \in 1..Len(sessions) : sessions'[i] = sessions[i]
            /\ LET row == sessions'[Len(sessions')]
               IN /\ row.user_id = user_id
                  /\ row.skill_id = skill_id
                  /\ 2 * row.start_time <= reading
                  /\ reading < 2 * row.start_time + 2
                  /\ row.end_time = NULL
                  /\ row.duration_minutes = NULL
            /\ ret'[p].n = Len(sessions')
            /\ badges' = badges
            /\ users' = users ]_vars

\* C10 witness: the second row was added by a successful start at 3600 s while
\* the first row and a BadgeRecord exist.
C10_Witness ==
    /\ Len(sessions) = 2
    /\ ret["t1"] = [ok |-> TRUE, kind |-> "session_id", n |-> 2]
    /\ sessions[2].start_time = 3600
    /\ IsOpen(sessions[2])
    /\ IsClosed(sessions[1])
    /\ \E user_id \in UserIds : badges[user_id] # NULL

\* C4: an end attempt is all-or-nothing: when end_study_session returns,
\* either the session row is closed and the owning user's BadgeRecord total
\* has grown by that duration, or the row is still open and the BadgeRecord
\* is unchanged.
C4_EndAllOrNothing ==
    [][ \A p \in Procs, session_id \in 1..MaxSessions, reading \in Readings :
          end_study_session(p, session_id, reading) =>
            \/ /\ sessions' = sessions
               /\ badges' = badges
            \/ /\ IsOpenId(session_id)
               /\ IsClosed(sessions'[session_id])
               /\ sessions'[session_id].duration_minutes # NULL
               /\ LET owner == sessions[session_id].user_id
                  IN /\ badges[owner] # NULL
                     /\ badges'[owner] # NULL
                     /\ Val(badges'[owner]).total_study_minutes =
                          Val(badges[owner]).total_study_minutes
                          + Val(sessions'[session_id].duration_minutes) ]_vars

\* C5: in every reachable state each BadgeRecord's current_badge is the title
\* of the BADGE_LEVELS entry with the greatest threshold <= total_study_minutes.
C5_BadgeIsHighestTierReached ==
    \A user_id \in UserIds :
        badges[user_id] # NULL =>
            LET record == Val(badges[user_id])
            IN \E i \in 1..Len(BADGE_LEVELS) :
                  /\ BADGE_LEVELS[i].title = record.current_badge
                  /\ BADGE_LEVELS[i].minutes <= record.total_study_minutes
                  /\ \A j \in 1..Len(BADGE_LEVELS) :
                        BADGE_LEVELS[j].minutes <= record.total_study_minutes
                        => BADGE_LEVELS[j].minutes <= BADGE_LEVELS[i].minutes

\* C6: every user's total_study_minutes is never negative and never
\* decreases from one state to the next, for any pair of clock readings at
\* start and at end.
C6_TotalNeverDecreases ==
    [][ \A user_id \in UserIds :
          badges[user_id] # NULL =>
            /\ badges'[user_id] # NULL
            /\ Val(badges'[user_id]).total_study_minutes >= 0
            /\ Val(badges'[user_id]).total_study_minutes
                 >= Val(badges[user_id]).total_study_minutes ]_vars

\* C8: every closed session has duration_minutes >= 0 whatever the clock
\* readings at start and at end, and ending an open session in the minute it
\* started succeeds with duration 0.
C8_DurationNeverNegative ==
    [][ /\ \A i \in 1..Len(sessions') :
              IsClosed(sessions'[i]) =>
                /\ sessions'[i].duration_minutes # NULL
                /\ Val(sessions'[i].duration_minutes) >= 0
        /\ \A p \in Procs, session_id \in 1..MaxSessions, reading \in Readings :
              ( /\ end_study_session(p, session_id, reading)
                /\ IsOpenId(session_id)
                /\ strftime(reading) - sessions[session_id].start_time \in 0..59 )
              => /\ ret'[p] = [ok |-> TRUE, kind |-> "duration", n |-> 0]
                 /\ sessions'[session_id].duration_minutes = Some(0) ]_vars

----------------------------------------------------------------------------
(* Properties of interleaved calls (SpecConc) *)

\* C2: two start_study_session calls for the same (user_id, skill_id) that
\* run concurrently never both succeed: no reachable state holds two open
\* sessions for one pair.
C2_ConcurrentStartsExclusive ==
    \A i, j \in 1..Len(sessions) :
        ( /\ i # j
          /\ sessions[i].user_id = sessions[j].user_id
          /\ sessions[i].skill_id = sessions[j].skill_id )
        => ~(IsOpen(sessions[i]) /\ IsOpen(sessions[j]))

----------------------------------------------------------------------------
(* Properties of the timer page (SpecUI) *)

\* C3: end_study_timer(user, skill) reports that there is no active session
\* only when the store holds no open session for (user, skill); whenever an
\* open session row for (user, skill) exists, also after the session state was
\* lost or from another browser session of the user, the call closes it.
C3_EndFindsStoredSession ==
    [][ \A p \in Procs, skill_id \in Skills :
          end_study_timer(p, skill_id, 7200) =>
            LET user_id == get_user_id(ui[p].username)
            IN IF OpenRowsOf(user_id, skill_id) # {}
               THEN /\ ret'[p].ok
                    /\ \A i \in OpenRowsOf(user_id, skill_id) :
                          IsClosed(sessions'[i])
               ELSE ~ret'[p].ok ]_vars

----------------------------------------------------------------------------
(* Properties of the duration (SpecClock) *)

\* Whole seconds from the stored start_time to the stored end_time.
ElapsedSeconds(row) == Val(row.end_time) - row.start_time

\* C7: on a successful end the stored duration_minutes is floor(s / 60), s the
\* whole seconds from the stored start_time to the end time, for every s from
\* 0 to MaxSecond: 59 gives 0, 90 gives 1, 119 gives 1, 120 gives 2.
C7_DurationIsFloorOfMinutes ==
    \A i \in 1..Len(sessions) :
        (IsClosed(sessions[i]) /\ ElapsedSeconds(sessions[i]) >= 0) =>
            LET s == ElapsedSeconds(sessions[i])
                d == sessions[i].duration_minutes
            IN /\ d # NULL
               /\ 60 * Val(d) <= s
               /\ s < 60 * Val(d) + 60
               /\ (s = 59 => Val(d) = 0)
               /\ (s = 90 => Val(d) = 1)
               /\ (s = 119 => Val(d) = 1)
               /\ (s = 120 => Val(d) = 2)

\* C7 witness: a session ended 119 s after its start, with one minute stored
\* and returned.
C7_Witness ==
    /\ Len(sessions) = 1
    /\ IsClosed(sessions[1])
    /\ ElapsedSeconds(sessions[1]) = 119
    /\ sessions[1].duration_minutes = Some(1)
    /\ ret["t1"] = [ok |-> TRUE, kind |-> "duration", n |-> 1]

----------------------------------------------------------------------------
(* Properties of the tiers and of the status (SpecTier) *)

LastLevel == Len(BADGE_LEVELS)
LastTitle == BADGE_LEVELS[LastLevel].title
IsTitle(x) == \E i \in 1..LastLevel : BADGE_LEVELS[i].title = x
TitleLevel(title) == CHOOSE i \in 1..LastLevel : BADGE_LEVELS[i].title = title

HasRecord(user_id) == user_id \in UserIds /\ badges[user_id] # NULL
Record(user_id) == Val(badges[user_id])

\* C14: get_badge_for_minutes(m) is, for every m from 0 to MaxMinutes, the
\* title of the last BADGE_LEVELS entry whose threshold is <= m; a threshold
\* is an inclusive lower bound: at every threshold t, t - 1 gives the tier
\* below and t the tier of t (59 gives "Member", 60 gives "Entry").
C14_ThresholdsInclusive ==
    \A user_id \in UserIds :
        (HasRecord(user_id) /\ Record(user_id).total_study_minutes >= 0) =>
            LET m == Record(user_id).total_study_minutes
                title == Record(user_id).current_badge
            IN /\ \E i \in 1..LastLevel :
                     /\ BADGE_LEVELS[i].title = title
                     /\ BADGE_LEVELS[i].minutes <= m
                     /\ \A j \in (i + 1)..LastLevel : BADGE_LEVELS[j].minutes > m
               /\ \A i \in 2..LastLevel :
                     /\ m = BADGE_LEVELS[i].minutes - 1 =>
                            title = BADGE_LEVELS[i - 1].title
                     /\ m = BADGE_LEVELS[i].minutes =>
                            title = BADGE_LEVELS[i].title
               /\ (m = 59 => title = "Member")
               /\ (m = 60 => title = "Entry")

\* C14 witness: a session of exactly 60 minutes has just been ended and the
\* badge computed from the total of 60 is "Entry".
C14_Witness ==
    /\ ret["t1"] = [ok |-> TRUE, kind |-> "duration", n |-> 60]
    /\ HasRecord(1)
    /\ Record(1).total_study_minutes = 60
    /\ Record(1).current_badge = "Entry"

\* What C15 asks of a status value for a BadgeRecord.
NextTierAnswered(record, value) ==
    LET i == TitleLevel(record.current_badge)
    IN IF i < LastLevel
       THEN /\ value.next_badge = BADGE_LEVELS[i + 1].title
            /\ value.minutes_to_next_badge =
                 (IF BADGE_LEVELS[i + 1].minutes > record.total_study_minutes
                  THEN BADGE_LEVELS[i + 1].minutes - record.total_study_minutes
                  ELSE 0)
       ELSE ~IsTitle(value.next_badge)

\* C15: for every user with a BadgeRecord the status (get_user_study_stats,
\* and get_study_badge which passes it on) returns as next_badge the title of
\* the tier immediately above current_badge and as minutes_to_next_badge
\* max(0, that tier's threshold - total_minutes); at the last tier next_badge
\* is a sentinel that is no title.
C15_NextBadgeAndMinutes ==
    [][ /\ \A p \in Procs, user_id \in UserIds :
              (get_user_study_stats(p, user_id) /\ HasRecord(user_id)) =>
                  NextTierAnswered(Record(user_id), ret'[p].value)
        /\ \A p \in Procs, username \in Usernames :
              (get_study_badge(p, username) /\ HasRecord(get_user_id(username))) =>
                  NextTierAnswered(Record(get_user_id(username)), ret'[p].value)
      ]_vars

\* C15 witness: the status of a user with 150 minutes ("Entry") has been
\* read: next_badge "Beginner", 150 minutes to go.
C15_Witness ==
    /\ HasRecord(1)
    /\ Record(1).total_study_minutes = 150
    /\ ret["t1"].kind = "stats"
    /\ ret["t1"].value.current_badge = "Entry"
    /\ ret["t1"].value.next_badge = "Beginner"
    /\ ret["t1"].value.minutes_to_next_badge = 150

\* clamp(0, 100, q)
Clamp100(q) == IF q < 0 THEN 0 ELSE IF q > 100 THEN 100 ELSE q

\* q is an integer nearest to 100 * value / range.
NearestPercent(q, value, range) ==
    LET d == 100 * value - q * range
    IN 2 * d <= range /\ -2 * d <= range

\* C16: for every user below the last tier the status returns
\* progress_percent = clamp(0, 100, round(100 * (total_minutes -
\* current_threshold) / (next_threshold - current_threshold))), rounded to the
\* nearest integer: 150 minutes between the thresholds 60 and 300 give 38.
C16_ProgressIsRoundedPercent ==
    [][ \A p \in Procs, username \in Usernames :
          ( /\ get_study_badge(p, username)
            /\ HasRecord(get_user_id(username))
            /\ Record(get_user_id(username)).current_badge # LastTitle
            \* already for the totals that are not negative
            /\ Record(get_user_id(username)).total_study_minutes >= 0 ) =>
              LET record == Record(get_user_id(username))
                  i == TitleLevel(record.current_badge)
                  range == BADGE_LEVELS[i + 1].minutes - BADGE_LEVELS[i].minutes
                  value == record.total_study_minutes - BADGE_LEVELS[i].minutes
                  floor == (100 * value) \div range
                  percent == ret'[p].value.progress_percent
              IN /\ \E q \in {floor, floor + 1} :
                       /\ NearestPercent(q, value, range)
                       /\ percent = Clamp100(q)
                 /\ (record.total_study_minutes = 150 => percent = 38) ]_vars

\* C17: for every user whose current_badge is the last tier, whatever the
\* total at or above the last threshold, the status returns
\* minutes_to_next_badge = 0 and progress_percent = 100.
C17_LastTierIsComplete ==
    [][ /\ \A p \in Procs, user_id \in UserIds :
              ( /\ get_user_study_stats(p, user_id)
                /\ HasRecord(user_id)
                /\ Record(user_id).current_badge = LastTitle ) =>
                  ret'[p].value.minutes_to_next_badge = 0
        /\ \A p \in Procs, username \in Usernames :
              ( /\ get_study_badge(p, username)
                /\ HasRecord(get_user_id(username))
                /\ Record(get_user_id(username)).current_badge = LastTitle ) =>
                  /\ ret'[p].value.minutes_to_next_badge = 0
                  /\ ret'[p].value.progress_percent = 100
      ]_vars

\* C17 witness: the status of a user with more minutes than the last
\* threshold has been read.
C17_Witness ==
    /\ HasRecord(1)
    /\ Record(1).current_badge = LastTitle
    /\ Record(1).total_study_minutes > BADGE_LEVELS[LastLevel].minutes
    /\ ret["t1"].kind = "study_badge"
    /\ ret["t1"].value.progress_percent = 100
    /\ ret["t1"].value.minutes_to_next_badge = 0

\* C18: in every reachable state and for every user, the progress_percent
\* get_study_badge returned lies in 0..100.
C18_ProgressWithinRange ==
    \A p \in Procs :
        ret[p].kind = "study_badge" =>
            /\ ret[p].value.progress_percent >= 0
            /\ ret[p].value.progress_percent <= 100

----------------------------------------------------------------------------
(* Properties of the badge record and of the closed sessions *)

\* The call closes the open session session_id and reports success.
EndsOpenSession(p, session_id, reading) ==
    /\ end_study_session(p, session_id, reading)
    /\ session_id \in 1..Len(sessions)
    /\ IsOpen(sessions[session_id])
    /\ ret'[p].ok

SameTotalAndBadge(user_id) ==
    /\ badges'[user_id] # NULL
    /\ Val(badges'[user_id]).total_study_minutes = Record(user_id).total_study_minutes
    /\ Val(badges'[user_id]).current_badge = Record(user_id).current_badge

\* C11: a BadgeRecord changes exactly when one of its user's sessions is
\* closed: a successful end sets total_study_minutes' = total_study_minutes +
\* the closed session's duration_minutes and recomputes current_badge from the
\* new total; no other operation (start, rejected end, active-session query,
\* status) changes total_study_minutes or current_badge.
C11_BadgeChangesOnlyOnClose ==
    [][ /\ \A p \in Procs, session_id \in 1..MaxSessions, reading \in Readings :
              ( /\ EndsOpenSession(p, session_id, reading)
                /\ HasRecord(sessions[session_id].user_id) ) =>
                  LET owner == sessions[session_id].user_id
                  IN /\ badges'[owner] # NULL
                     /\ Val(badges'[owner]).total_study_minutes =
                          Record(owner).total_study_minutes
                          + Val(sessions'[session_id].duration_minutes)
                     /\ Val(badges'[owner]).current_badge =
                          get_badge_for_minutes(Val(badges'[owner]).total_study_minutes)
        /\ \A user_id \in UserIds :
              (HasRecord(user_id) /\ ~SameTotalAndBadge(user_id)) =>
                  \E p \in Procs, session_id \in 1..MaxSessions, reading \in Readings :
                      /\ EndsOpenSession(p, session_id, reading)
                      /\ sessions[session_id].user_id = user_id
        /\ \A p \in Procs, user_id \in UserIds, reading \in Readings :
              ( \/ start_study_session(p, user_id, "py", reading)
                \/ get_active_study_session(p, user_id, "py", reading)
                \/ get_user_study_stats(p, user_id)
                \/ \E session_id \in 1..MaxSessions :
                      /\ end_study_session(p, session_id, reading)
                      /\ ~ret'[p].ok ) =>
                  \A other \in UserIds : HasRecord(other) => SameTotalAndBadge(other)
      ]_vars

\* C11 witness: the active session of a user has just been queried; the user
\* has an open session, and a closed one of 60 minutes that made the total 60
\* and the badge "Entry".
C11_Witness ==
    /\ ret["t1"].kind = "active"
    /\ ret["t1"].value # NULL
    /\ \E user_id \in UserIds :
          /\ HasRecord(user_id)
          /\ Record(user_id).total_study_minutes = 60
          /\ Record(user_id).current_badge = "Entry"
          /\ OpenRowsOf(user_id, "py") # {}
          /\ \E i \in 1..Len(sessions) :
                /\ sessions[i].user_id = user_id
                /\ sessions[i].duration_minutes = Some(60)

\* C12: once a session is closed its end_time, duration_minutes and
\* start_time never change and the row is never reopened or deleted, for any
\* later sequence or interleaving of start and end calls, a second end and
\* two concurrent ends on the same session id included; no row's start_time
\* ever changes.
C12_ClosedSessionIsFinal ==
    [][ \A i \in 1..Len(sessions) :
          /\ i <= Len(sessions')
          /\ sessions'[i].start_time = sessions[i].start_time
          /\ IsClosed(sessions[i]) =>
                /\ sessions'[i].end_time = sessions[i].end_time
                /\ sessions'[i].duration_minutes = sessions[i].duration_minutes
      ]_vars

\* C13: ending a session whose owning user has no BadgeRecord is reported to
\* the caller as a failure, never as a successful end.
C13_EndWithoutRecordFails ==
    [][ \A p \in Procs, session_id \in 1..MaxSessions, reading \in Readings :
          ( /\ end_study_session(p, session_id, reading)
            /\ session_id \in 1..Len(sessions)
            /\ IsOpen(sessions[session_id])
            /\ ~HasRecord(sessions[session_id].user_id) ) =>
              ~ret'[p].ok ]_vars

\* C19: an end with 0 seconds elapsed since the start succeeds with
\* duration_minutes = 0 and still recomputes the badge: the owner's
\* total_study_minutes and current_badge are unchanged by it and
\* badge_updated_at is set to the end time.
C19_ZeroElapsedEnd ==
    [][ \A p \in Procs, session_id \in 1..MaxSessions, reading \in Readings :
          ( /\ end_study_session(p, session_id, reading)
            /\ session_id \in 1..Len(sessions)
            /\ IsOpen(sessions[session_id])
            /\ 2 * sessions[session_id].start_time <= reading
            /\ reading < 2 * sessions[session_id].start_time + 2
            /\ HasRecord(sessions[session_id].user_id) ) =>
              LET owner == sessions[session_id].user_id
                  end_time == sessions[session_id].start_time
              IN /\ ret'[p] = [ok |-> TRUE, kind |-> "duration", n |-> 0]
                 /\ sessions'[session_id].duration_minutes = Some(0)
                 /\ sessions'[session_id].end_time = Some(end_time)
                 /\ SameTotalAndBadge(owner)
                 /\ Val(badges'[owner]).badge_updated_at = end_time ]_vars

\* C19 witness: a user with 60 minutes ("Entry", last updated at 01:00:00)
\* has ended a second session in the second it was started, at 00:00:00.
C19_Witness ==
    /\ ret["t1"] = [ok |-> TRUE, kind |-> "duration", n |-> 0]
    /\ Len(sessions) = 2
    /\ sessions[1].duration_minutes = Some(60)
    /\ sessions[2].duration_minutes = Some(0)
    /\ sessions[2].end_time = Some(0)
    /\ sessions[2].start_time = 0
    /\ sessions[2].user_id = sessions[1].user_id
    /\ HasRecord(sessions[2].user_id)
    /\ Record(sessions[2].user_id) =
         [ total_study_minutes |-> 60, current_badge |-> "Entry",
           badge_updated_at |-> 0 ]

\* C20: the timers of one user are independent per skill: a start for one
\* skill succeeds while the user has an open session for another skill, and
\* ending the session of one skill leaves the open session of the other
\* skill open and unchanged.
C20_TimersIndependentPerSkill ==
    [][ /\ \A p \in Procs, user_id \in UserIds, skill_id \in Skills,
               reading \in Readings :
              ( /\ start_study_session(p, user_id, skill_id, reading)
                /\ OpenRowsOf(user_id, skill_id) = {} ) =>
                  /\ ret'[p].ok
                  /\ \A other \in Skills \ {skill_id} :
                        \A i \in OpenRowsOf(user_id, other) :
                            sessions'[i] = sessions[i]
        /\ \A p \in Procs, session_id \in 1..MaxSessions, reading \in Readings :
              ( /\ end_study_session(p, session_id, reading)
                /\ session_id \in 1..Len(sessions) ) =>
                  \A other \in Skills \ {sessions[session_id].skill_id} :
                      \A i \in OpenRowsOf(sessions[session_id].user_id, other) :
                          sessions'[i] = sessions[i]
      ]_vars

\* C20 witness: a user's session for one skill was started while the session
\* for the other skill was open, and is still open after that one was ended.
C20_Witness ==
    /\ ret["t1"].kind = "duration"
    /\ Len(sessions) = 2
    /\ sessions[1].user_id = sessions[2].user_id
    /\ sessions[1].skill_id # sessions[2].skill_id
    /\ IsClosed(sessions[1])
    /\ IsOpen(sessions[2])
    /\ Val(sessions[1].end_time) > sessions[2].start_time

----------------------------------------------------------------------------
(* Properties of the queries and of the rejections (SpecOps) *)

\* What C21 asks of the answer to an active-session query for (user_id,
\* skill_id) made at the clock reading `reading`.
ActiveAnswered(value, user_id, skill_id, reading) ==
    IF OpenRowsOf(user_id, skill_id) = {}
    THEN value = NULL
    ELSE /\ value # NULL
         /\ Val(value).session_id \in OpenRowsOf(user_id, skill_id)
         /\ Val(value).start_time = sessions[Val(value).session_id].start_time
         /\ LET halves == reading - 2 * Val(value).start_time
            IN /\ 2 * Val(value).elapsed_seconds - halves < 2
               /\ halves - 2 * Val(value).elapsed_seconds < 2

\* C21: the active-session query (get_active_study_session, and
\* get_active_study_timer which passes it on) returns a session exactly when
\* an open session for (user, skill) is in the store; the session returned
\* is that open session, with elapsed_seconds the seconds from its
\* start_time to the time of the call; the call changes no session row and
\* no BadgeRecord.
C21_ActiveSessionQuery ==
    [][ /\ \A p \in Procs, user_id \in UserIds, reading \in Readings :
              get_active_study_session(p, user_id, "py", reading) =>
                  /\ ActiveAnswered(ret'[p].value, user_id, "py", reading)
                  /\ sessions' = sessions
                  /\ badges' = badges
        /\ \A p \in Procs, username \in Usernames, reading \in Readings :
              get_active_study_timer(p, username, "py", reading) =>
                  /\ IF get_user_id(username) = 0
                     THEN ret'[p].value = NULL
                     ELSE ActiveAnswered(ret'[p].value, get_user_id(username),
                                         "py", reading)
                  /\ sessions' = sessions
                  /\ badges' = badges
      ]_vars

\* C21 witness: the query answered with the open second session, one hour
\* after its start, while the first session is closed.
C21_Witness ==
    /\ Len(sessions) = 2
    /\ IsClosed(sessions[1])
    /\ IsOpen(sessions[2])
    /\ ret["t1"].kind = "active"
    /\ ret["t1"].value =
         Some([session_id |-> 2, start_time |-> 0, elapsed_seconds |-> 3600])

\* C22: a rejected start (an open session exists) and a rejected end (no
\* open session with the given id) leave the whole store unchanged and
\* return the rejection as a (False, message) value.
C22_RejectionsChangeNothing ==
    [][ /\ \A p \in Procs, user_id \in UserIds, reading \in Readings :
              ( /\ start_study_session(p, user_id, "py", reading)
                /\ OpenRowsOf(user_id, "py") # {} ) =>
                  /\ ~ret'[p].ok
                  /\ ret'[p].kind = "already_active"
                  /\ store' = store
        /\ \A p \in Procs, session_id \in 1..MaxSessions, reading \in Readings :
              ( /\ end_study_session(p, session_id, reading)
                /\ ~(session_id \in 1..Len(sessions) /\ IsOpen(sessions[session_id])) ) =>
                  /\ ~ret'[p].ok
                  /\ ret'[p].kind = "no_active"
                  /\ store' = store
      ]_vars

\* C22 witness: an end of the closed first session has just been rejected
\* while the second session is open.
C22_Witness ==
    /\ ret["t1"] = [ok |-> FALSE, kind |-> "no_active", n |-> 0]
    /\ Len(sessions) = 2
    /\ IsClosed(sessions[1])
    /\ IsOpen(sessions[2])
    /\ \E user_id \in UserIds : HasRecord(user_id)

\* C28: end_study_session(session_id) adds the duration only to the
\* BadgeRecord of the user_id stored on that session row; every other user's
\* BadgeRecord and every other session row are unchanged.
C28_EndTouchesOwnerOnly ==
    [][ \A p \in Procs, session_id \in 1..MaxSessions, reading \in Readings :
          ( /\ end_study_session(p, session_id, reading)
            /\ session_id \in 1..Len(sessions)
            /\ IsOpen(sessions[session_id]) ) =>
              LET owner == sessions[session_id].user_id
              IN /\ \A other \in UserIds \ {owner} : badges'[other] = badges[other]
                 /\ Len(sessions') = Len(sessions)
                 /\ \A i \in 1..Len(sessions) :
                       i # session_id => sessions'[i] = sessions[i]
                 /\ sessions'[session_id].user_id = owner
                 /\ HasRecord(owner) =>
                       Val(badges'[owner]).total_study_minutes =
                         Record(owner).total_study_minutes
                         + Val(sessions'[session_id].duration_minutes) ]_vars

\* C28 witness: both users have a BadgeRecord and a session; the end of the
\* second user's session of 60 minutes has left the first user's record and
\* open session as they were.
C28_Witness ==
    /\ ret["t1"] = [ok |-> TRUE, kind |-> "duration", n |-> 60]
    /\ Len(sessions) = 2
    /\ sessions[1].user_id = 1
    /\ IsOpen(sessions[1])
    /\ sessions[2].user_id = 2
    /\ sessions[2].duration_minutes = Some(60)
    /\ HasRecord(1)
    /\ HasRecord(2)
    /\ Record(1).total_study_minutes = 0
    /\ Record(2).total_study_minutes = 60

----------------------------------------------------------------------------
(* Properties of the tier over time, of the badge table and of the totals *)

\* C24: a user's tier is monotonic: the index of current_badge in
\* BADGE_LEVELS never decreases from one state to the next, over any sequence
\* of starts and ends.
C24_TierNeverDecreases ==
    [][ \A user_id \in UserIds :
          HasRecord(user_id) =>
            /\ badges'[user_id] # NULL
            /\ TitleLevel(Val(badges'[user_id]).current_badge)
                 >= TitleLevel(Record(user_id).current_badge) ]_vars

\* The index at which the reverse scan of get_badge_for_minutes stops for a
\* total m: the last entry with threshold <= m, the first entry (the default)
\* when there is none.
ScanLevel(m) ==
    IF \E i \in 1..LastLevel : BADGE_LEVELS[i].minutes <= m
    THEN CHOOSE i \in 1..LastLevel :
            /\ BADGE_LEVELS[i].minutes <= m
            /\ \A j \in (i + 1)..LastLevel : BADGE_LEVELS[j].minutes > m
    ELSE 1

\* C25: BADGE_LEVELS is well-formed: the first threshold is 0, the thresholds
\* are strictly increasing, the titles are pairwise distinct; so for every
\* BadgeRecord the forward title lookup of the status finds the index at
\* which the reverse scan stopped.
C25_BadgeTableWellFormed ==
    /\ BADGE_LEVELS[1].minutes = 0
    /\ \A i \in 1..(LastLevel - 1) :
          BADGE_LEVELS[i].minutes < BADGE_LEVELS[i + 1].minutes
    /\ \A i, j \in 1..LastLevel :
          i # j => BADGE_LEVELS[i].title # BADGE_LEVELS[j].title
    /\ \A user_id \in UserIds :
          HasRecord(user_id) =>
            LevelIndex(Record(user_id).current_badge)
              = ScanLevel(Record(user_id).total_study_minutes)

\* C25 witness: the status of a user with exactly 300 minutes has been read:
\* the scan stopped at "Beginner" and the lookup found the tier after it.
C25_Witness ==
    /\ HasRecord(1)
    /\ Record(1).total_study_minutes = 300
    /\ Record(1).current_badge = "Beginner"
    /\ ret["t1"].kind = "stats"
    /\ ret["t1"].value.next_badge = "Intermediate"
    /\ ret["t1"].value.minutes_to_next_badge = 600

\* C29: in every reachable state a user whose current_badge is not the last
\* tier has minutes_to_next_badge >= 1; get_study_badge sets progress to 100
\* for minutes_to_next_badge = 0 only for a user at the last tier.
C29_ZeroMinutesOnlyAtLastTier ==
    /\ \A user_id \in UserIds :
          (HasRecord(user_id) /\ Record(user_id).current_badge # LastTitle) =>
              BADGE_LEVELS[TitleLevel(Record(user_id).current_badge) + 1].minutes
                - Record(user_id).total_study_minutes >= 1
    /\ \A p \in Procs :
          ret[p].kind \in {"stats", "study_badge"} =>
              /\ ret[p].value.current_badge # LastTitle =>
                    ret[p].value.minutes_to_next_badge >= 1
              /\ ret[p].value.minutes_to_next_badge = 0 =>
                    ret[p].value.current_badge = LastTitle

\* C29 witness: the status of a user one minute short of "Beginner" has been
\* read: 1 minute to go, 99 percent.
C29_Witness ==
    /\ HasRecord(1)
    /\ Record(1).total_study_minutes = 299
    /\ ret["t1"].kind = "study_badge"
    /\ ret["t1"].value.current_badge = "Entry"
    /\ ret["t1"].value.minutes_to_next_badge = 1
    /\ ret["t1"].value.progress_percent = 99

RECURSIVE SumOver(_, _)
SumOver(f, S) ==
    IF S = {} THEN 0
    ELSE LET x == CHOOSE y \in S : TRUE
         IN f[x] + SumOver(f, S \ {x})

\* The sum of duration_minutes over the closed sessions of a user.
ClosedMinutes(user_id) ==
    SumOver(get_study_history_by_skill(user_id),
            DOMAIN get_study_history_by_skill(user_id))

TotalIsSum(user_id) ==
    /\ HasRecord(user_id)
    /\ Record(user_id).total_study_minutes = ClosedMinutes(user_id)

\* C26: in every reachable state and under every interleaving of end calls
\* of one user, the user's total_study_minutes is the sum of
\* duration_minutes over the user's closed sessions: no step counts a
\* duration twice or loses one (a user whose total is that sum keeps a total
\* that is that sum).
C26_TotalIsSumOfDurations ==
    [][ \A user_id \in UserIds : TotalIsSum(user_id) => TotalIsSum(user_id)' ]_vars

----------------------------------------------------------------------------
(* Properties of the timer page (SpecUI) *)

\* The rows of a (user_id, skill_id) pair.
RowsOf(user_id, skill_id) ==
    { i \in 1..Len(sessions) :
        sessions[i].user_id = user_id /\ sessions[i].skill_id = skill_id }

\* The pair's latest session has been ended.
LastEnded(user_id, skill_id) ==
    \E i \in RowsOf(user_id, skill_id) :
        /\ IsClosed(sessions[i])
        /\ \A j \in RowsOf(user_id, skill_id) : j <= i

\* C30: after a successful end for (user, skill), the next start for (user,
\* skill) succeeds and creates a new session row whose id differs from every
\* earlier session id; the closed row is untouched and the UI map entry for
\* that skill refers to the new open session.
C30_RestartAfterEnd ==
    [][ \A p \in Procs, skill_id \in Skills :
          ( /\ start_study_timer(p, skill_id, 0)
            /\ get_user_id(ui[p].username) # 0
            /\ LastEnded(get_user_id(ui[p].username), skill_id) )
          => /\ ret'[p].ok
             /\ Len(sessions') = Len(sessions) + 1
             /\ \A i \in 1..Len(sessions) : sessions'[i] = sessions[i]
             /\ ui'[p].active_study_sessions[skill_id] \notin 1..Len(sessions)
             /\ ui'[p].active_study_sessions[skill_id] = Len(sessions')
             /\ sessions'[Len(sessions')].user_id = get_user_id(ui[p].username)
             /\ sessions'[Len(sessions')].skill_id = skill_id
             /\ IsOpen(sessions'[Len(sessions')]) ]_vars

\* C30 witness: ann's "py" session 1 has been ended and the timer started
\* again: session 2 is open and the map of the browser session holds it.
C30_Witness ==
    /\ Len(sessions) = 2
    /\ sessions[1].user_id = 1 /\ sessions[1].skill_id = "py"
    /\ IsClosed(sessions[1])
    /\ sessions[2].user_id = 1 /\ sessions[2].skill_id = "py"
    /\ IsOpen(sessions[2])
    /\ ui["t1"].username = "ann"
    /\ ui["t1"].active_study_sessions["py"] = 2
    /\ ret["t1"].ok /\ ret["t1"].kind = "timer_started"

----------------------------------------------------------------------------
(* Properties of logout (SpecLogout) *)

\* C27: after logout_user completes, every session recorded in the UI
\* session's active_study_sessions map is closed in the store and the map is
\* empty: no session started in that UI session stays open after logout,
\* including when an individual end_study_session call returns failure.
C27_LogoutClosesSessions ==
    [][ \A p \in Procs :
          LogoutDone(p) =>
            /\ \A skill_id \in Skills :
                  ui[p].active_study_sessions[skill_id] # 0 =>
                      IsClosed(sessions'[ui[p].active_study_sessions[skill_id]])
            /\ \A skill_id \in Skills :
                  ui'[p].active_study_sessions[skill_id] = 0 ]_vars

----------------------------------------------------------------------------
(* Properties of registration (SpecReg) *)

\* C23: every registered user has exactly one BadgeRecord from registration
\* onward, created with total_study_minutes = 0 and current_badge = the
\* lowest tier of BADGE_LEVELS; registration inserts the user row and the
\* BadgeRecord together or not at all.
C23_BadgeRecordFromRegistration ==
    [][ \A user_id \in UserIds :
          /\ user_id <= Len(users') <=> badges'[user_id] # NULL
          /\ (user_id > Len(users) /\ user_id <= Len(users')) =>
                /\ Val(badges'[user_id]).total_study_minutes = 0
                /\ Val(badges'[user_id]).current_badge = BADGE_LEVELS[1].title
          /\ (user_id <= Len(users)) =>
                /\ user_id <= Len(users')
                /\ users'[user_id] = users[user_id] ]_vars

\* C23 witness: ann has registered and has studied an hour, bob's
\* registration has failed and left no row of either table.
C23_Witness ==
    /\ users = << "ann" >>
    /\ HasRecord(1)
    /\ Record(1).total_study_minutes = 60
    /\ badges[2] = NULL
    /\ ret["t1"].kind = "duration"
    /\ ret["t2"].kind = "error"
    /\ pc["t2"] = "idle"

====
